---- MODULE Spec2Model ----
(***************************************************************************)
(* Model of the automated repair pipeline: file registry, fault            *)
(* localisation (fan-out), patch application, validation pipeline and the  *)
(* retry-bounded orchestration graph.                                      *)
(*                                                                         *)
(* Strings are modelled as sequences of components: a filename such as     *)
(* "Foo.java" is <<"Foo", "java">>, a dotted import "pkg.Foo" is           *)
(* <<"pkg", "Foo">>, and a path "proj/Foo.java" is <<"proj/", "Foo",       *)
(* "java">>, so that suffix tests, concatenation and basename are          *)
(* computed, not assumed.  File contents are sequences of lines, a line    *)
(* being a record [k, s] of its lexical kind and the name it carries.      *)
(***************************************************************************)
EXTENDS Integers, Sequences, FiniteSets, TLC

VARIABLES
    \* ---- orchestration graph (main_graph.py) ----
    pc,             \* node about to run, or the way the graph ended
    state,          \* the session dict threaded through the graph
    disk,           \* path -> [content, mtime] of the project's files
    backups,        \* <<path, stamp>> -> content of "<path>.backup_<stamp>"
    clock,          \* wall clock in ticks
    errorLog,       \* content of error.log, or NoLog when it is missing
    routerWrites,   \* does the graph runtime keep the router's write to state
    hist,           \* history of the session (observations for the properties)
    \* ---- fault localisation on its own ----
    loc,
    \* ---- patch application on its own ----
    ap,
    \* ---- validation workflow (sre_validation_system.py) ----
    val,
    \* ---- file registry on its own: build, outside edits, patches, refresh ----
    reg

orchVars == <<pc, state, disk, backups, clock, errorLog, routerWrites, hist>>
vars == <<pc, state, disk, backups, clock, errorLog, routerWrites, hist, loc, ap, val, reg>>

None == <<"None">>

RegIdle == [op |-> "idle"]

EmptyMap == [x \in {} |-> x]

ValIdle == [op |-> "idle"]

\* dict.get(k, default)
Get(d, k, default) == IF k \in DOMAIN d THEN d[k] ELSE default

\* dict with key k set to v
Put(d, k, v) == (k :> v) @@ d

\* dict without key k
Del(d, k) == [x \in DOMAIN d \ {k} |-> d[x]]

Min(a, b) == IF a <= b THEN a ELSE b

Range(s) == {s[i] : i \in DOMAIN s}

\* all sequences over S of length at most n
RECURSIVE SeqsUpTo(_, _)
SeqsUpTo(S, n) ==
    IF n = 0 THEN {<<>>}
    ELSE LET shorter == SeqsUpTo(S, n - 1)
         IN shorter \cup {Append(q, x) : q \in {r \in shorter : Len(r) = n - 1}, x \in S}

\* all orderings (sequences without repetition) of the finite set S
RECURSIVE Orderings(_)
Orderings(S) ==
    IF S = {} THEN {<<>>}
    ELSE UNION {{<<x>> \o q : q \in Orderings(S \ {x})} : x \in S}

(***************************************************************************)
(* Names, paths and contents                                               *)
(***************************************************************************)
Java(s) == <<s, "java">>

\* str.endswith(".java")
EndsWithJava(n) == Len(n) >= 2 /\ n[Len(n)] = "java"

DirParts == {"proj/", "src/"}

\* os.path.basename
Basename(p) == IF Len(p) > 0 /\ p[1] \in DirParts THEN Tail(p) ELSE p

\* os.path.splitext(name)[0]
Stem(n) == IF Len(n) >= 2 THEN SubSeq(n, 1, Len(n) - 1) ELSE n

LowerStr(s) ==
    CASE s = "A" -> "a"
      [] s = "B" -> "b"
      [] s = "C" -> "c"
      [] s = "Z" -> "z"
      [] OTHER -> s

\* str.lower()
Lower(n) == [i \in 1..Len(n) |-> LowerStr(n[i])]

ProjectDir == "proj/"

PathOf(name) == <<ProjectDir>> \o name

L(kind, name) == [k |-> kind, s |-> name]

\* hashlib.md5(text).hexdigest(): a digest that determines the text
md5(text) == <<"md5", text>>

(***************************************************************************)
(* File registry                                                           *)
(***************************************************************************)
\* CLASS_RE.search(content): the first "class <name>" of the content
RECURSIVE ClassMatch(_)
ClassMatch(content) ==
    IF content = <<>> THEN None
    ELSE IF Head(content).k = "class" THEN Head(content).s
    ELSE ClassMatch(Tail(content))

\* IMPORT_RE.findall(content): the dotted name of every "import <name>;"
RECURSIVE ImportsOf(_)
ImportsOf(content) ==
    IF content = <<>> THEN <<>>
    ELSE (IF Head(content).k = "import" THEN <<Head(content).s>> ELSE <<>>)
         \o ImportsOf(Tail(content))

\* CALL_RE matches of one line: "new X(" gives X, and every "word." gives
\* word, which a dotted import line has for each component but its last
CallsOfLine(line) ==
    CASE line.k = "new" -> <<line.s>>
      [] line.k = "import" -> [i \in 1..(Len(line.s) - 1) |-> <<line.s[i]>>]
      [] OTHER -> <<>>

\* CALL_RE.findall(content), empty captures dropped
RECURSIVE CallsOf(_)
CallsOf(content) ==
    IF content = <<>> THEN <<>>
    ELSE CallsOfLine(Head(content)) \o CallsOf(Tail(content))

ClassNameOf(content, path) ==
    IF ClassMatch(content) # None THEN ClassMatch(content) ELSE Stem(Basename(path))

build_file_entry(d, path) ==
    [path |-> path,
     content |-> d[path].content,
     class |-> ClassNameOf(d[path].content, path),
     imports |-> ImportsOf(d[path].content),
     calls |-> CallsOf(d[path].content),
     last_modified |-> d[path].mtime,
     checksum |-> md5(d[path].content)]

find_all_java_files(d) == {p \in DOMAIN d : EndsWithJava(p)}

build_file_index(d) ==
    [n \in {Basename(p) : p \in find_all_java_files(d)} |->
        build_file_entry(d, CHOOSE p \in find_all_java_files(d) : Basename(p) = n)]

\* a refresh that rebuilds every entry whose file exists
RefreshRebuildingAll(file_index, d) ==
    LET kept == {n \in DOMAIN file_index : file_index[n].path \in DOMAIN d}
    IN [n \in kept |-> build_file_entry(d, file_index[n].path)]

\* a refresh that rebuilds an entry as soon as the modification time differs
RefreshOnMtimeAlone(file_index, d) ==
    LET kept == {n \in DOMAIN file_index : file_index[n].path \in DOMAIN d}
    IN [n \in kept |->
          IF d[file_index[n].path].mtime # file_index[n].last_modified
          THEN build_file_entry(d, file_index[n].path)
          ELSE file_index[n]]

refresh_file_index(file_index, d) ==
    LET kept == {n \in DOMAIN file_index : file_index[n].path \in DOMAIN d}
    IN [n \in kept |->
          LET info == file_index[n]
              path == info.path
          IN IF d[path].mtime # info.last_modified
                /\ md5(d[path].content) # info.checksum
             THEN build_file_entry(d, path)
             ELSE info]

(***************************************************************************)
(* Fault localisation                                                      *)
(***************************************************************************)
\* STACK_TRACE_RE on one line of the log: "at <frame>(<Name>.java:<line>)"
FrameMatch(line) ==
    /\ line.k = "at"
    /\ Len(line.s) = 2
    /\ line.s[2] = "java"

extract_filenames_from_error(error_text) ==
    {error_text[i].s : i \in {j \in DOMAIN error_text : FrameMatch(error_text[j])}}

NeighborFile(neighbor_class) ==
    IF EndsWithJava(neighbor_class) THEN neighbor_class ELSE neighbor_class \o <<"java">>

\* the inner loop of fan_out over one file's imports + calls, in list order
RECURSIVE ScanNeighbors(_, _, _, _)
ScanNeighbors(neighbors, file_index, expanded, next_frontier) ==
    IF neighbors = <<>> THEN next_frontier
    ELSE LET neighbor_file == NeighborFile(Head(neighbors))
         IN ScanNeighbors(Tail(neighbors), file_index, expanded,
                IF neighbor_file \in DOMAIN file_index /\ neighbor_file \notin expanded
                THEN next_frontier \cup {neighbor_file}
                ELSE next_frontier)

\* the loop of fan_out over the frontier, visited in the order ord gives
RECURSIVE ScanFrontier(_, _, _, _, _)
ScanFrontier(ord, frontier, file_index, expanded, next_frontier) ==
    IF ord = <<>> THEN next_frontier
    ELSE LET fname == Head(ord)
         IN IF fname \notin frontier \/ fname \notin DOMAIN file_index
            THEN ScanFrontier(Tail(ord), frontier, file_index, expanded, next_frontier)
            ELSE ScanFrontier(Tail(ord), frontier, file_index, expanded,
                    ScanNeighbors(file_index[fname].imports \o file_index[fname].calls,
                                  file_index, expanded, next_frontier))

RECURSIVE FanOutRounds(_, _, _, _, _)
FanOutRounds(expanded, frontier, file_index, rounds, ord) ==
    IF rounds <= 0 THEN expanded
    ELSE LET next_frontier == ScanFrontier(ord, frontier, file_index, expanded, {})
         IN FanOutRounds(expanded \cup next_frontier, next_frontier, file_index,
                         rounds - 1, ord)

FanOutOneMore(files, file_index, depth, ord) ==
    FanOutRounds(files, files, file_index, depth + 1, ord)

fan_out(files, file_index, depth, ord) ==
    FanOutRounds(files, files, file_index, depth, ord)

GetRelevantNoFailOpen(error_text, file_index, depth, ord) ==
    LET selected_names == fan_out(extract_filenames_from_error(error_text),
                                  file_index, depth, ord)
    IN [name \in selected_names \cap DOMAIN file_index |-> file_index[name]]

get_relevant_files(error_text, file_index, depth, ord) ==
    LET initial == extract_filenames_from_error(error_text)
    IN IF initial = {} THEN file_index
       ELSE LET selected_names == fan_out(initial, file_index, depth, ord)
            IN [name \in selected_names \cap DOMAIN file_index |-> file_index[name]]

(***************************************************************************)
(* Patch application                                                       *)
(*                                                                         *)
(* A response is a sequence of lines.  The filesystem state that           *)
(* apply_fixes_to_code reads and writes is carried in a record st =        *)
(* [index, disk, backups, clock, log, warnings]; log and warnings record   *)
(* what the call did (its writes and its printed warnings).                *)
(***************************************************************************)
TicksPerSecond == 2

\* datetime.now().strftime("%Y%m%d_%H%M%S"): the clock cut to whole seconds
Timestamp(now) == now \div TicksPerSecond

\* line.startswith("FILENAME:") or line.endswith(".java")
IsFilenameLine(line) ==
    \/ line.k = "FILENAME"
    \/ line.k = "text" /\ EndsWithJava(line.s)

\* line.split(":", 1)[-1].strip() if ":" in line else line
MarkerFilename(line) == line.s

\* line.startswith("```java") or line.startswith("```")
IsFence(line) == line.k = "fence"

\* next(k for k in source_files if basename(k).lower() == suggested.lower())
RECURSIVE MatchedKey(_, _, _)
MatchedKey(ord, source_files, suggested_basename) ==
    IF ord = <<>> THEN None
    ELSE IF /\ Head(ord) \in DOMAIN source_files
            /\ Lower(Basename(Head(ord))) = Lower(suggested_basename)
         THEN Head(ord)
         ELSE MatchedKey(Tail(ord), source_files, suggested_basename)

\* index of the first fence at or after i, or Len + 1: where the inner
\* while loop collecting code_lines stops
RECURSIVE CloseIdx(_, _)
CloseIdx(lines, i) ==
    IF i > Len(lines) \/ IsFence(lines[i]) THEN i ELSE CloseIdx(lines, i + 1)

\* shutil.copy2(file_path, f"{file_path}.backup_{timestamp}")
create_backup(st, file_path, now) ==
    [st EXCEPT !.backups = Put(@, <<file_path, Timestamp(now)>>, st.disk[file_path].content)]

\* a block that appends to the file instead of replacing its content
ApplyBlockAppending(st, source_files, ord, current_filename, fixed_code) ==
    LET matched_key == MatchedKey(ord, source_files, Basename(current_filename))
    IN IF matched_key # None
       THEN LET file_path == source_files[matched_key].path
                now == st.clock + 1
                b == create_backup(st, file_path, now)
                written == st.disk[file_path].content \o fixed_code
            IN [b EXCEPT
                  !.clock = now,
                  !.disk = Put(@, file_path, [content |-> written, mtime |-> now]),
                  !.index = Put(@, matched_key,
                               [st.index[matched_key] EXCEPT
                                   !.content = written,
                                   !.last_modified = now,
                                   !.checksum = md5(written)]),
                  !.log = Append(@, [key |-> matched_key, path |-> file_path,
                                     suggested |-> current_filename,
                                     content |-> fixed_code,
                                     old |-> st.disk[file_path].content,
                                     stamp |-> Timestamp(now)])]
       ELSE [st EXCEPT !.warnings = Append(@, current_filename)]

\* a block that writes the suggested file when no file of the working set matches
ApplyBlockCreating(st, source_files, ord, current_filename, fixed_code) ==
    LET matched_key == MatchedKey(ord, source_files, Basename(current_filename))
        now == st.clock + 1
    IN IF matched_key # None
       THEN LET file_path == source_files[matched_key].path
                b == create_backup(st, file_path, now)
            IN [b EXCEPT
                  !.clock = now,
                  !.disk = Put(@, file_path, [content |-> fixed_code, mtime |-> now]),
                  !.index = Put(@, matched_key,
                               [st.index[matched_key] EXCEPT
                                   !.content = fixed_code,
                                   !.last_modified = now,
                                   !.checksum = md5(fixed_code)]),
                  !.log = Append(@, [key |-> matched_key, path |-> file_path,
                                     suggested |-> current_filename,
                                     content |-> fixed_code,
                                     old |-> st.disk[file_path].content,
                                     stamp |-> Timestamp(now)])]
       ELSE [st EXCEPT
                  !.clock = now,
                  !.disk = Put(@, PathOf(Basename(current_filename)),
                               [content |-> fixed_code, mtime |-> now])]

\* a block that updates the content of the entry and not its checksum
ApplyBlockStaleChecksum(st, source_files, ord, current_filename, fixed_code) ==
    LET matched_key == MatchedKey(ord, source_files, Basename(current_filename))
    IN IF matched_key # None
       THEN LET file_path == source_files[matched_key].path
                now == st.clock + 1
                b == create_backup(st, file_path, now)
            IN [b EXCEPT
                  !.clock = now,
                  !.disk = Put(@, file_path, [content |-> fixed_code, mtime |-> now]),
                  !.index = Put(@, matched_key,
                               [st.index[matched_key] EXCEPT
                                   !.content = fixed_code,
                                   !.last_modified = now]),
                  !.log = Append(@, [key |-> matched_key, path |-> file_path,
                                     suggested |-> current_filename,
                                     content |-> fixed_code,
                                     old |-> st.disk[file_path].content,
                                     stamp |-> Timestamp(now)])]
       ELSE [st EXCEPT !.warnings = Append(@, current_filename)]

\* lines 147-176 of apply_fixes_to_code: one code block under a pending
\* filename; time passes (one tick) before the backup and the write
ApplyBlock(st, source_files, ord, current_filename, fixed_code) ==
    LET matched_key == MatchedKey(ord, source_files, Basename(current_filename))
    IN IF matched_key # None
       THEN LET file_path == source_files[matched_key].path
                now == st.clock + 1
                b == create_backup(st, file_path, now)
            IN [b EXCEPT
                  !.clock = now,
                  !.disk = Put(@, file_path, [content |-> fixed_code, mtime |-> now]),
                  !.index = Put(@, matched_key,
                               [st.index[matched_key] EXCEPT
                                   !.content = fixed_code,
                                   !.last_modified = now,
                                   !.checksum = md5(fixed_code)]),
                  !.log = Append(@, [key |-> matched_key, path |-> file_path,
                                     suggested |-> current_filename,
                                     content |-> fixed_code,
                                     old |-> st.disk[file_path].content,
                                     stamp |-> Timestamp(now)])]
       ELSE [st EXCEPT !.warnings = Append(@, current_filename)]

\* a loop in which a pending filename is not replaced by a later marker
RECURSIVE ApplyLoopFirstWins(_, _, _, _, _, _)
ApplyLoopFirstWins(response_lines, i, current_filename, source_files, ord, st) ==
    IF i > Len(response_lines) THEN st
    ELSE LET line == response_lines[i]
         IN IF IsFilenameLine(line)
            THEN ApplyLoopFirstWins(response_lines, i + 1,
                                    IF current_filename = None
                                    THEN MarkerFilename(line) ELSE current_filename,
                                    source_files, ord, st)
            ELSE IF IsFence(line)
            THEN IF current_filename = None
                 THEN ApplyLoopFirstWins(response_lines, i + 1, current_filename,
                                         source_files, ord,
                                         [st EXCEPT !.warnings = Append(@, None)])
                 ELSE LET close == CloseIdx(response_lines, i + 1)
                          fixed_code == SubSeq(response_lines, i + 1, close - 1)
                      IN ApplyLoopFirstWins(response_lines, close + 1, None,
                                            source_files, ord,
                                            ApplyBlock(st, source_files, ord,
                                                       current_filename, fixed_code))
            ELSE ApplyLoopFirstWins(response_lines, i + 1, current_filename,
                                    source_files, ord, st)

\* a loop that keeps the pending filename after a block has been processed
RECURSIVE ApplyLoopKeepingFilename(_, _, _, _, _, _)
ApplyLoopKeepingFilename(response_lines, i, current_filename, source_files, ord, st) ==
    IF i > Len(response_lines) THEN st
    ELSE LET line == response_lines[i]
         IN IF IsFilenameLine(line)
            THEN ApplyLoopKeepingFilename(response_lines, i + 1, MarkerFilename(line),
                                          source_files, ord, st)
            ELSE IF IsFence(line)
            THEN IF current_filename = None
                 THEN ApplyLoopKeepingFilename(response_lines, i + 1, current_filename,
                                               source_files, ord,
                                               [st EXCEPT !.warnings = Append(@, None)])
                 ELSE LET close == CloseIdx(response_lines, i + 1)
                          fixed_code == SubSeq(response_lines, i + 1, close - 1)
                      IN ApplyLoopKeepingFilename(response_lines, close + 1,
                                                  current_filename, source_files, ord,
                                                  ApplyBlock(st, source_files, ord,
                                                             current_filename, fixed_code))
            ELSE ApplyLoopKeepingFilename(response_lines, i + 1, current_filename,
                                          source_files, ord, st)

\* the while loop of apply_fixes_to_code from line i on
RECURSIVE ApplyLoop(_, _, _, _, _, _)
ApplyLoop(response_lines, i, current_filename, source_files, ord, st) ==
    IF i > Len(response_lines) THEN st
    ELSE LET line == response_lines[i]
         IN IF IsFilenameLine(line)
            THEN ApplyLoop(response_lines, i + 1, MarkerFilename(line),
                           source_files, ord, st)
            ELSE IF IsFence(line)
            THEN IF current_filename = None
                 THEN ApplyLoop(response_lines, i + 1, current_filename, source_files, ord,
                                [st EXCEPT !.warnings = Append(@, None)])
                 ELSE LET close == CloseIdx(response_lines, i + 1)
                          fixed_code == SubSeq(response_lines, i + 1, close - 1)
                      IN ApplyLoop(response_lines, close + 1, None, source_files, ord,
                                   ApplyBlock(st, source_files, ord,
                                              current_filename, fixed_code))
            ELSE ApplyLoop(response_lines, i + 1, current_filename, source_files, ord, st)

apply_fixes_to_code(response_text, source_files, ord, st) ==
    ApplyLoop(response_text, 1, None, source_files, ord,
              [st EXCEPT !.log = <<>>, !.warnings = <<>>])

(***************************************************************************)
(* Validation workflow                                                     *)
(*                                                                         *)
(* One attempt of the oracle client ends in one of: a response whose JSON  *)
(* part parses to an object ("json"), a response that parses to something  *)
(* else ("nonobject"), or an exception, told apart by what its message     *)
(* contains ("rate": 429/quota/rate limit, "json": the word json,          *)
(* "other").  A JSON list or string is a record [t, v].                    *)
(***************************************************************************)
JList(q) == [t |-> "list", v |-> q]
JStr(x) == [t |-> "str", v |-> <<x>>]

Json(d) == [k |-> "json", v |-> d]
NonObject == [k |-> "nonobject", v |-> EmptyMap]
Raise(msg) == [k |-> msg, v |-> EmptyMap]

max_retries == 3

\* what invoke_with_json_response returns: t is "dict" or "other" (a value
\* that is no dict), d the dict, attempts the calls made, failed whether
\* the call ended in the except branch
Returned(t, d, attempts, failed) ==
    [t |-> t, d |-> d, attempts |-> attempts, failed |-> failed]

\* the for loop of invoke_with_json_response from attempt (0-based) on;
\* outs[attempt + 1] is what the oracle does at that attempt
RECURSIVE InvokeFrom(_, _)
InvokeFrom(outs, attempt) ==
    IF attempt >= max_retries THEN Returned("other", EmptyMap, attempt, TRUE)
    ELSE LET o == outs[attempt + 1]
         IN CASE o.k = "json" -> Returned("dict", o.v, attempt + 1, FALSE)
              [] o.k = "nonobject" -> Returned("other", EmptyMap, attempt + 1, FALSE)
              [] o.k = "rate" ->
                    IF attempt < max_retries - 1
                    THEN InvokeFrom(outs, attempt + 1)
                    ELSE Returned("dict", [error |-> "Rate limit exceeded",
                                           raw_response |-> "Rate limit error"],
                                  attempt + 1, TRUE)
              [] o.k = "jsonerror" ->
                    Returned("dict", [error |-> "Failed to parse LLM response",
                                      raw_response |-> "str(e)"],
                             attempt + 1, TRUE)
              [] OTHER ->
                    IF attempt < max_retries - 1
                    THEN InvokeFrom(outs, attempt + 1)
                    ELSE Returned("dict", [error |-> "LLM call failed"], attempt + 1, TRUE)

invoke_with_json_response(outs) == InvokeFrom(outs, 0)

\* an analysis node that writes an empty object when its oracle call failed
AnalysisFieldBlankOnFailure(r) ==
    IF r.failed THEN EmptyMap
    ELSE IF r.t = "dict" THEN r.d ELSE [error |-> "AttributeError"]

\* the five analysis nodes: the field is the client's value, or an error
\* object when reading it raised (analysis.get on a value that is no dict)
AnalysisField(r) == IF r.t = "dict" THEN r.d ELSE [error |-> "AttributeError"]

DecisionFailed(what) ==
    [decision |-> "REJECT",
     detailed_report |-> [kind |-> "Decision process failed", text |-> what],
     recommendations |-> JList(<<"Manual review required due to system failure">>),
     failure_reasons |-> JList(<<"System error">>)]

\* list + list, str + str; a list and a str do not add (TypeError)
CanAdd(a, b) == a.t = b.t

\* final_decision_node, given what the client returned
final_decision_node(r) ==
    IF r.t # "dict" THEN DecisionFailed("AttributeError")
    ELSE LET decision == r.d
             final_decision == Get(decision, "decision", "NEEDS_REVIEW")
             reasoning == Get(decision, "decision_reasoning", "No reasoning provided")
             actions == Get(decision, "recommended_actions", JList(<<>>))
             minor == Get(decision, "minor_improvements", JList(<<>>))
             issues == Get(decision, "critical_issues", JList(<<>>))
         IN IF ~CanAdd(actions, minor) THEN DecisionFailed("TypeError")
            ELSE [decision |-> final_decision,
                  detailed_report |-> [kind |-> "SRE VALIDATION REPORT", text |-> reasoning],
                  recommendations |-> [t |-> actions.t, v |-> actions.v \o minor.v],
                  failure_reasons |-> issues]

\* the except branch of validate_code_with_llm
WorkflowFailed ==
    [decision |-> "REJECT",
     detailed_report |-> [kind |-> "Workflow failed", text |-> "str(e)"],
     recommendations |-> JList(<<"Manual review required due to system failure">>),
     failure_reasons |-> JList(<<"System error">>)]

\* validate_code_with_llm: the workflow's final state, as far as its caller
\* reads it, given what the client returned to the decision node; raised
\* says that app.invoke raised
validate_code_with_llm(raised, r) ==
    IF raised THEN WorkflowFailed ELSE final_decision_node(r)

Streams(outcomes) == [1..max_retries -> outcomes]

AnalysisOutcomes ==
    {Json([risk_level |-> "low"]), NonObject,
     Raise("rate"), Raise("jsonerror"), Raise("other")}

AggDicts ==
    {EmptyMap,
     [decision |-> "DEPLOY"],
     [decision |-> "DEPLOY", critical_issues |-> JList(<<"bug">>)],
     [decision |-> "REJECT"],
     [decision |-> "REJECT", critical_issues |-> JList(<<"bug">>),
      decision_reasoning |-> "why"],
     [decision |-> "REJECT", recommended_actions |-> JStr("redo")],
     [decision |-> "NEEDS_REVIEW", recommended_actions |-> JList(<<"look">>),
      minor_improvements |-> JList(<<"tidy">>)],
     [decision |-> "APPROVE"]}

AggOutcomes ==
    {Json(d) : d \in AggDicts}
        \cup {NonObject, Raise("rate"), Raise("jsonerror"), Raise("other")}

AnalysisReturns == {invoke_with_json_response(q) : q \in Streams(AnalysisOutcomes)}

AggReturns == {invoke_with_json_response(q) : q \in Streams(AggOutcomes)}

(***************************************************************************)
(* The validation workflow node by node (create_sre_validation_workflow):  *)
(* val.pc is the node about to run, val.st the workflow state, val.ran     *)
(* the nodes run so far, val.agg what the client returned to the decision  *)
(* node.                                                                   *)
(***************************************************************************)
ValInit ==
    val = [pc |-> "analyze_error", st |-> EmptyMap, ran |-> <<>>,
           agg |-> Returned("other", EmptyMap, 0, FALSE), failed |-> {}]

\* an analysis node wired straight to the decision node
AnalysisNodeShortCut(node, field, next) ==
    /\ val.pc = node
    /\ \E r \in AnalysisReturns :
        val' = [val EXCEPT !.pc = "make_decision",
                           !.st = Put(@, field, AnalysisField(r)),
                           !.ran = Append(@, node),
                           !.failed = IF r.failed THEN @ \cup {field} ELSE @]
    /\ UNCHANGED <<orchVars, loc, ap, reg>>

AnalysisNode(node, field, next) ==
    /\ val.pc = node
    /\ \E r \in AnalysisReturns :
        val' = [val EXCEPT !.pc = next,
                           !.st = Put(@, field, AnalysisField(r)),
                           !.ran = Append(@, node),
                           !.failed = IF r.failed THEN @ \cup {field} ELSE @]
    /\ UNCHANGED <<orchVars, loc, ap, reg>>

analyze_error_node == AnalysisNode("analyze_error", "error_analysis", "analyze_code_diff")

code_diff_analysis_node ==
    AnalysisNode("analyze_code_diff", "code_diff_analysis", "validate_logic")

logic_validation_node ==
    AnalysisNode("validate_logic", "logic_validation", "validate_semantics")

semantic_validation_node ==
    AnalysisNode("validate_semantics", "semantic_validation", "validate_security")

security_validation_node ==
    AnalysisNode("validate_security", "security_validation", "make_decision")

make_decision ==
    /\ val.pc = "make_decision"
    /\ \E r \in AggReturns :
        val' = [val EXCEPT !.pc = "END",
                           !.st = final_decision_node(r) @@ @,
                           !.ran = Append(@, "make_decision"),
                           !.agg = r]
    /\ UNCHANGED <<orchVars, loc, ap, reg>>

(***************************************************************************)
(* Fault localisation as a function of its inputs: Init draws a project,   *)
(* an error text, a seed set, a depth and a visiting order; one step       *)
(* applies fan_out, another get_relevant_files.                            *)
(***************************************************************************)
FA == Java("A")
FB == Java("B")
FC == Java("C")
FZ == Java("Z")

MaxDepth == 3

LocNames == {FA, FB, FC}

LocContents ==
    {<<>>,
     <<L("import", <<"B">>)>>,
     <<L("import", <<"C">>)>>,
     <<L("new", <<"A">>)>>,
     <<L("new", <<"Z">>)>>,
     <<L("import", <<"pkg", "C">>)>>,
     <<L("import", <<"C", "java">>)>>,
     <<L("class", <<"K">>), L("import", <<"B">>), L("new", <<"C">>)>>,
     <<L("import", <<"A">>), L("text", <<"x">>), L("new", <<"B">>)>>}

LocErrors ==
    {<<>>,
     <<L("text", <<"boom">>)>>,
     <<L("text", <<"boom">>), L("at", <<"K", "kt">>)>>,
     <<L("at_noline", FA)>>,
     <<L("at", FA)>>,
     <<L("at", FZ)>>,
     <<L("at", FC), L("text", <<"boom">>), L("at", FZ)>>}

LocIdle == [op |-> "idle"]

LocOrders == {<<FZ>> \o q : q \in Orderings(LocNames)}

LocInit ==
    \E present \in (SUBSET LocNames) \ {{}} :
      \E cs \in [present -> LocContents] :
        LET d == [p \in {PathOf(n) : n \in present} |->
                     [content |-> cs[Basename(p)], mtime |-> 0]]
        IN loc = [op |-> "start",
                  index |-> build_file_index(d),
                  files |-> {},
                  err |-> <<>>,
                  depth |-> 0,
                  out |-> {}]

LocFanOut ==
    /\ loc.op = "start"
    /\ \E files \in SUBSET DOMAIN loc.index, depth \in 0..MaxDepth, ord \in LocOrders :
        loc' = [loc EXCEPT !.op = "fan_out", !.files = files, !.depth = depth,
                           !.out = fan_out(files, loc.index, depth, ord)]
    /\ UNCHANGED <<orchVars, ap, val, reg>>

LocGetRelevant ==
    /\ loc.op = "start"
    /\ \E err \in LocErrors, depth \in 0..MaxDepth, ord \in LocOrders :
        loc' = [loc EXCEPT !.op = "get_relevant_files", !.err = err, !.depth = depth,
                           !.out = get_relevant_files(err, loc.index, depth, ord)]
    /\ UNCHANGED <<orchVars, ap, val, reg>>

(***************************************************************************)
(* Patch application as a function of its inputs: Init draws the project,  *)
(* the working set and the order in which its keys are visited; one step   *)
(* applies a response, a second step applies the same response again.      *)
(***************************************************************************)
Fa == Java("a")
Readme == <<ProjectDir, "README", "md">>

Fence == L("fence", <<>>)
Prose == L("text", <<"note">>)
ProseJava == L("text", <<"see A", "java">>)
MarkA == L("FILENAME", FA)
MarkZ == L("FILENAME", FZ)
MarkLowerA == L("FILENAME", <<"src/", "a", "java">>)
BareB == L("text", FB)

Code1 == <<L("import", <<"C">>)>>
Code2 == <<L("class", <<"K">>), L("new", <<"B">>)>>

Block(marker, code) == <<marker, Fence>> \o code \o <<Fence>>

Segments ==
    {<<Prose>>, <<ProseJava>>, <<MarkA>>, <<MarkZ>>, <<Fence>>,
     <<Fence>> \o Code1 \o <<Fence>>,
     <<MarkA, Fence>> \o Code2,
     Block(MarkA, Code1), Block(MarkLowerA, Code2),
     Block(MarkZ, Code1), Block(BareB, Code2)}

RECURSIVE Flatten(_)
Flatten(segs) == IF segs = <<>> THEN <<>> ELSE Head(segs) \o Flatten(Tail(segs))

MaxSegments == 3

Responses == {Flatten(q) : q \in SeqsUpTo(Segments, MaxSegments)}

InitialContent(name) ==
    CASE name = FA -> <<L("class", <<"A">>), L("import", <<"B">>)>>
      [] name = FB -> <<L("class", <<"B">>)>>
      [] name = Fa -> <<L("text", <<"low">>)>>
      [] OTHER -> <<L("text", <<"readme">>)>>

DiskOf(names, t) ==
    [p \in {PathOf(n) : n \in names} \cup {Readme} |->
        [content |-> InitialContent(Basename(p)), mtime |-> t]]

ApIdle == [op |-> "idle"]

WorkingSets == {{}, {FA}, {FA, FB}, {Fa, FB}, {FA, Fa, FB}}

ApInit ==
    \E t \in 0..1, src \in WorkingSets, ord \in {<<FA, Fa, FB>>, <<FB, Fa, FA>>} :
        LET d == DiskOf({FA, Fa, FB}, 0)
            st0 == [index |-> build_file_index(d), disk |-> d, backups |-> EmptyMap,
                    clock |-> t, log |-> <<>>, warnings |-> <<>>]
        IN ap = [op |-> "start", resp |-> <<>>, src |-> src, ord |-> ord,
                 pre |-> st0, st |-> st0, first |-> st0]

SourceFiles(keys, file_index) == [k \in keys |-> file_index[k]]

ApplyOnce ==
    /\ ap.op = "start"
    /\ \E resp \in Responses :
        LET st1 == apply_fixes_to_code(resp, SourceFiles(ap.src, ap.st.index), ap.ord, ap.st)
        IN ap' = [ap EXCEPT !.op = "applied", !.resp = resp, !.st = st1, !.first = st1]
    /\ UNCHANGED <<orchVars, loc, val, reg>>

ApplyAgain ==
    /\ ap.op = "applied"
    /\ \E dt \in 0..1 :
        LET st1 == [ap.st EXCEPT !.clock = @ + dt]
            st2 == apply_fixes_to_code(ap.resp, SourceFiles(ap.src, st1.index), ap.ord, st1)
        IN ap' = [ap EXCEPT !.op = "reapplied", !.st = st2]
    /\ UNCHANGED <<orchVars, loc, val, reg>>

(***************************************************************************)
(* The orchestration graph (main_graph.py): fix_code -> test_code ->       *)
(* router -> fix_code | END.  pc names the node about to run; the three    *)
(* ways router returns END are told apart as DEPLOYED (decision DEPLOY),   *)
(* ESCALATED (decision NEEDS_REVIEW) and ABORTED_ROLLED_BACK (after        *)
(* restore_original_code); RAISED is a run ended by an exception.          *)
(***************************************************************************)
RetryCeiling == 3
FixerDepth == 2
LogWindow == 2

MaxStartRetries == 4
MaxProposals == 3

NoLog == <<L("missing", <<>>)>>

\* error_log[-5000:], the window counted in lines
LastLines(text, n) == IF Len(text) <= n THEN text ELSE SubSeq(text, Len(text) - n + 1, Len(text))

OrchErrors ==
    {<<L("at", FA)>>,
     <<L("text", <<"boom">>), L("at", FB)>>,
     <<L("at", FZ)>>,
     <<L("at", FB), L("text", <<"boom">>), L("text", <<"more">>)>>}

OrchResponses ==
    {<<>>,
     Block(MarkA, Code1),
     <<Prose>> \o Block(MarkA, Code2) \o Block(BareB, Code2),
     Block(MarkZ, Code1) \o Block(MarkA, Code1) \o Block(MarkLowerA, Code2)}

OrchOrders == {<<FA, FB, FZ>>, <<FZ, FB, FA>>}

OrchAggOutcomes ==
    {Json(d) : d \in {EmptyMap,
                      [decision |-> "DEPLOY"],
                      [decision |-> "DEPLOY", critical_issues |-> JList(<<"bug">>)],
                      [decision |-> "REJECT"],
                      [decision |-> "REJECT", critical_issues |-> JList(<<"bug">>),
                       decision_reasoning |-> "why"],
                      [decision |-> "APPROVE"]}}
        \cup {NonObject, Raise("rate")}

\* what validate_code_with_llm can return to testing_node
ValidationResults ==
    {validate_code_with_llm(FALSE, invoke_with_json_response(q)) : q \in Streams(OrchAggOutcomes)}
        \cup {validate_code_with_llm(TRUE, Returned("other", EmptyMap, 0, TRUE))}

Init ==
    /\ pc = "fix_code"
    /\ state \in {EmptyMap} \cup {[retries |-> n] : n \in 0..MaxStartRetries}
    /\ disk = DiskOf({FA, FB}, 0)
    /\ backups = EmptyMap
    /\ clock \in 0..1
    /\ errorLog \in OrchErrors \cup {NoLog}
    /\ routerWrites \in BOOLEAN
    /\ hist = [start_retries |-> Get(state, "retries", 0),
               pristine |-> disk,
               proposals |-> 0,
               validations |-> 0,
               rollbacks |-> 0,
               restore_failed |-> {},
               first_decision |-> "",
               first_log |-> <<>>,
               feedback |-> <<>>,
               last_rejection |-> None,
               validate_retries |-> -1]
    /\ loc = LocIdle /\ ap = ApIdle /\ val = ValIdle /\ reg = RegIdle

\* the note of the validation agent that node_fixer puts in its prompt:
\* empty, or made of the reason of the rejection
extra_note(st) ==
    IF "test_failure_reason" \in DOMAIN st THEN <<st["test_failure_reason"]>> ELSE <<>>

\* a capture of the backup map that is redone on every run
CaptureBackupAlways(st, file_index) ==
    [original_code_backup |-> [fname \in DOMAIN file_index |-> file_index[fname].content],
     original_code_path_map |-> [fname \in DOMAIN file_index |-> file_index[fname].path]]

\* the backup map node_fixer adds to the state: nothing when it has one
CaptureBackup(st, file_index) ==
    IF "original_code_backup" \notin DOMAIN st
    THEN [original_code_backup |->
              [fname \in DOMAIN file_index |-> file_index[fname].content],
          original_code_path_map |->
              [fname \in DOMAIN file_index |-> file_index[fname].path]]
    ELSE EmptyMap

\* the oracle's answers to the first MaxProposals prompts are drawn from
\* OrchResponses; its later answers hold no code block
ResponsesAt(n) == IF n < MaxProposals THEN OrchResponses ELSE {<<>>}

\* node_fixer when it ends normally: registry, localisation, the oracle's
\* response applied, the backup map on the first run, the state updated
node_fixer ==
    /\ pc = "fix_code"
    /\ errorLog # NoLog
    /\ \E response \in ResponsesAt(hist.proposals), ord \in OrchOrders :
        LET error_log == LastLines(errorLog, LogWindow)
            file_index0 == IF "file_index" \notin DOMAIN state
                           THEN build_file_index(disk)
                           ELSE refresh_file_index(state["file_index"], disk)
            relevant_files == get_relevant_files(error_log, file_index0, FixerDepth, ord)
            st0 == [index |-> file_index0, disk |-> disk, backups |-> backups,
                    clock |-> clock, log |-> <<>>, warnings |-> <<>>]
            st1 == apply_fixes_to_code(response, relevant_files, ord, st0)
            file_index == st1.index
            backup == CaptureBackup(state, file_index)
        IN /\ state' = [file_index |-> file_index,
                        relevant_files |->
                            [fname \in DOMAIN relevant_files |-> file_index[fname]],
                        original_error |-> error_log] @@ backup @@ state
           /\ disk' = st1.disk
           /\ backups' = st1.backups
           /\ clock' = st1.clock
           /\ hist' = [hist EXCEPT !.proposals = Min(@ + 1, MaxProposals),
                                   !.first_log = IF hist.proposals = 0 THEN st1.log ELSE @,
                                   !.feedback = extra_note(state)]
    /\ pc' = "test_code"
    /\ UNCHANGED <<errorLog, routerWrites, loc, ap, val, reg>>

\* node_fixer ended by an exception: find_error_log finds no log
\* (FileNotFoundError), or chat.send_message raises
node_fixer_raises ==
    /\ pc = "fix_code"
    /\ pc' = "RAISED"
    /\ hist' = [hist EXCEPT !.proposals = Min(@ + 1, MaxProposals)]
    /\ UNCHANGED <<state, disk, backups, clock, errorLog, routerWrites, loc, ap, val, reg>>

\* a testing_node that does not count the rejection
TestingUpdateNoCount(st, result) ==
    LET updated_state == [decision |-> result.decision,
                          detailed_report |-> result.detailed_report,
                          recommendations |-> result.recommendations,
                          failure_reasons |-> result.failure_reasons,
                          retries |-> Get(st, "retries", 0)] @@ st
    IN IF result.decision = "REJECT"
       THEN [test_failure_reason |->
                 [summary |-> IF result.failure_reasons.v # <<>>
                              THEN result.failure_reasons.v
                              ELSE <<"REJECTED. No clear reason provided.">>,
                  full_report |-> result.detailed_report]] @@ updated_state
       ELSE updated_state

\* a testing_node that keeps the reason of an earlier rejection
TestingUpdateKeepingReason(st, result) ==
    LET updated_state == [decision |-> result.decision,
                          detailed_report |-> result.detailed_report,
                          recommendations |-> result.recommendations,
                          failure_reasons |-> result.failure_reasons,
                          retries |-> Get(st, "retries", 0)] @@ st
    IN IF result.decision = "REJECT"
       THEN [retries |-> updated_state["retries"] + 1] @@ updated_state @@
            [test_failure_reason |->
                 [summary |-> IF result.failure_reasons.v # <<>>
                              THEN result.failure_reasons.v
                              ELSE <<"REJECTED. No clear reason provided.">>,
                  full_report |-> result.detailed_report]]
       ELSE updated_state

\* testing_node given the validation result
TestingUpdate(st, result) ==
    LET updated_state == [decision |-> result.decision,
                          detailed_report |-> result.detailed_report,
                          recommendations |-> result.recommendations,
                          failure_reasons |-> result.failure_reasons,
                          retries |-> Get(st, "retries", 0)] @@ st
    IN IF result.decision = "REJECT"
       THEN [retries |-> updated_state["retries"] + 1,
             test_failure_reason |->
                 [summary |-> IF result.failure_reasons.v # <<>>
                              THEN result.failure_reasons.v
                              ELSE <<"REJECTED. No clear reason provided.">>,
                  full_report |-> result.detailed_report]] @@ updated_state
       ELSE updated_state

testing_node ==
    /\ pc = "test_code"
    /\ \E result \in ValidationResults :
        /\ state' = TestingUpdate(state, result)
        /\ hist' = [hist EXCEPT !.validations = Min(@ + 1, MaxProposals),
                                !.first_decision =
                                    IF hist.validations = 0 THEN result.decision ELSE @,
                                !.validate_retries = Get(state, "retries", 0),
                                !.last_rejection =
                                    IF result.decision = "REJECT"
                                    THEN [failure_reasons |-> result.failure_reasons,
                                          detailed_report |-> result.detailed_report]
                                    ELSE @]
    /\ pc' = "router"
    /\ UNCHANGED <<disk, backups, clock, errorLog, routerWrites, loc, ap, val, reg>>

\* a router that never gives up: the retry ceiling is not checked
RouterBranchNoCeiling(st) ==
    IF Get(st, "decision", "") = "DEPLOY" THEN "DEPLOYED"
    ELSE IF Get(st, "decision", "") = "NEEDS_REVIEW" THEN "ESCALATED"
    ELSE "fix_code"

\* a router that checks the retry ceiling before the decision
RouterBranchCeilingFirst(st) ==
    IF Get(st, "retries", 0) >= RetryCeiling THEN "ABORTED_ROLLED_BACK"
    ELSE IF Get(st, "decision", "") = "DEPLOY" THEN "DEPLOYED"
    ELSE IF Get(st, "decision", "") = "NEEDS_REVIEW" THEN "ESCALATED"
    ELSE "fix_code"

\* the branch router takes
RouterBranch(st) ==
    IF Get(st, "decision", "") = "DEPLOY" THEN "DEPLOYED"
    ELSE IF Get(st, "decision", "") = "NEEDS_REVIEW" THEN "ESCALATED"
    ELSE IF Get(st, "retries", 0) >= RetryCeiling THEN "ABORTED_ROLLED_BACK"
    ELSE "fix_code"

\* restore_original_code: every file of the backup map with a recorded path
\* is rewritten, but those whose write raises (failing)
\* a rollback that stops at the first file it fails to restore (here: it
\* restores nothing once some file fails)
RestoreStoppingAtFailure(st, d, failing, now) ==
    LET path_map == Get(st, "original_code_path_map", EmptyMap)
        backup == Get(st, "original_code_backup", EmptyMap)
        restored == IF failing # {} THEN {}
                    ELSE {f \in DOMAIN backup : f \in DOMAIN path_map}
    IN [p \in DOMAIN d \cup {path_map[f] : f \in restored} |->
           IF \E f \in restored : path_map[f] = p
           THEN [content |-> backup[CHOOSE f \in restored : path_map[f] = p],
                 mtime |-> now]
           ELSE d[p]]

restore_original_code(st, d, failing, now) ==
    LET path_map == Get(st, "original_code_path_map", EmptyMap)
        backup == Get(st, "original_code_backup", EmptyMap)
        restored == {f \in DOMAIN backup : f \in DOMAIN path_map /\ f \notin failing}
    IN [p \in DOMAIN d \cup {path_map[f] : f \in restored} |->
           IF \E f \in restored : path_map[f] = p
           THEN [content |-> backup[CHOOSE f \in restored : path_map[f] = p],
                 mtime |-> now]
           ELSE d[p]]

router ==
    /\ pc = "router"
    /\ LET branch == RouterBranch(state)
       IN /\ pc' = branch
          /\ IF branch = "ABORTED_ROLLED_BACK"
             THEN \E failing \in SUBSET DOMAIN Get(state, "original_code_backup", EmptyMap) :
                    /\ disk' = restore_original_code(state, disk, failing, clock + 1)
                    /\ clock' = clock + 1
                    /\ hist' = [hist EXCEPT !.rollbacks = @ + 1, !.restore_failed = failing]
                    /\ state' = state
             ELSE /\ UNCHANGED <<disk, clock, hist>>
                  /\ state' = IF branch = "fix_code" /\ routerWrites
                              THEN Put(state, "retries", Get(state, "retries", 0) + 1)
                              ELSE state
    /\ UNCHANGED <<backups, errorLog, routerWrites, loc, ap, val, reg>>

Next == node_fixer \/ node_fixer_raises \/ testing_node \/ router

Spec == Init /\ [][Next]_vars

OrchIdle ==
    /\ pc = "idle"
    /\ state = EmptyMap
    /\ disk = EmptyMap
    /\ backups = EmptyMap
    /\ clock = 0
    /\ errorLog = <<>>
    /\ routerWrites = FALSE
    /\ hist = EmptyMap

InitLocalize == OrchIdle /\ LocInit /\ ap = ApIdle /\ val = ValIdle /\ reg = RegIdle

NextLocalize == LocFanOut \/ LocGetRelevant

SpecLocalize == InitLocalize /\ [][NextLocalize]_vars

InitApply == OrchIdle /\ loc = LocIdle /\ ApInit /\ val = ValIdle /\ reg = RegIdle

NextApply == ApplyOnce \/ ApplyAgain

SpecApply == InitApply /\ [][NextApply]_vars

(***************************************************************************)
(* The file registry on its own: it is built from the project, files are   *)
(* edited, created and deleted from outside, responses are applied and the *)
(* registry is refreshed, in any order.                                    *)
(***************************************************************************)
MaxEdits == 2
MaxPatches == 1
MaxRefreshes == 2

RegContents == {<<L("class", <<"A">>), L("import", <<"B">>)>>, Code1}

RegResponses == {Block(MarkA, Code2), Block(MarkLowerA, <<>>) \o Block(BareB, Code1)}

RegInit ==
    \E cs \in [{FA, FB} -> RegContents] :
        LET d == [p \in {PathOf(FA), PathOf(FB), Readme} |->
                     [content |-> IF p = Readme THEN InitialContent(Basename(Readme))
                                  ELSE cs[Basename(p)],
                      mtime |-> 0]]
            st0 == [index |-> build_file_index(d), disk |-> d, backups |-> EmptyMap,
                    clock |-> 0, log |-> <<>>, warnings |-> <<>>]
        IN reg = [op |-> "built", st |-> st0, prev |-> st0.index,
                  edits |-> 0, patches |-> 0, refreshes |-> 0]

\* a file is written from outside: an existing one or a new one; the write
\* may leave the modification time as it was (keep)
RegWrite ==
    /\ reg.op # "idle"
    /\ reg.edits < MaxEdits
    /\ \E p \in {PathOf(FA), PathOf(FC)}, c \in {Code1, Code2}, keep \in BOOLEAN :
        LET now == reg.st.clock + 1
            mtime == IF keep /\ p \in DOMAIN reg.st.disk THEN reg.st.disk[p].mtime ELSE now
        IN reg' = [reg EXCEPT !.op = "edited", !.edits = @ + 1,
                              !.st.clock = now,
                              !.st.disk = Put(@, p, [content |-> c, mtime |-> mtime])]
    /\ UNCHANGED <<orchVars, loc, ap, val>>

\* a file is deleted from outside
RegDelete ==
    /\ reg.op # "idle"
    /\ reg.edits < MaxEdits
    /\ \E p \in {PathOf(FA), PathOf(FB)} \cap DOMAIN reg.st.disk :
        reg' = [reg EXCEPT !.op = "edited", !.edits = @ + 1, !.st.disk = Del(@, p)]
    /\ UNCHANGED <<orchVars, loc, ap, val>>

\* a response is applied with the whole registry as working set, which
\* node_fixer does to a registry it has just built or refreshed: every
\* entry's file exists
RegPatch ==
    /\ reg.op # "idle"
    /\ reg.patches < MaxPatches
    /\ \A n \in DOMAIN reg.st.index : reg.st.index[n].path \in DOMAIN reg.st.disk
    /\ \E resp \in RegResponses :
        reg' = [reg EXCEPT !.op = "patched", !.patches = @ + 1,
                           !.st = apply_fixes_to_code(resp, reg.st.index, <<FA, FB, FC>>, @)]
    /\ UNCHANGED <<orchVars, loc, ap, val>>

RegRefresh ==
    /\ reg.op # "idle"
    /\ reg.refreshes < MaxRefreshes
    /\ reg' = [reg EXCEPT !.op = "refreshed", !.refreshes = @ + 1,
                          !.prev = reg.st.index,
                          !.st.index = refresh_file_index(@, reg.st.disk)]
    /\ UNCHANGED <<orchVars, loc, ap, val>>

InitRegistry == OrchIdle /\ loc = LocIdle /\ ap = ApIdle /\ val = ValIdle /\ RegInit

NextRegistry == RegWrite \/ RegDelete \/ RegPatch \/ RegRefresh

SpecRegistry == InitRegistry /\ [][NextRegistry]_vars

(***************************************************************************)
(* Properties of the orchestration graph (Spec)                            *)
(***************************************************************************)
\* C1: a session started with the retry counter at the ceiling whose first
\* validation decision is REJECT runs the rollback and ends, without a
\* second run of node_fixer.
C1_CeilingRejectRollsBack ==
    (hist.start_retries = RetryCeiling /\ hist.first_decision = "REJECT") =>
        /\ pc \in {"router", "ABORTED_ROLLED_BACK"}
        /\ hist.proposals = 1
        /\ hist.validations = 1
        /\ pc = "ABORTED_ROLLED_BACK" => hist.rollbacks = 1

C1_Witness ==
    /\ hist.start_retries = RetryCeiling
    /\ hist.first_decision = "REJECT"
    /\ pc = "ABORTED_ROLLED_BACK"
    /\ hist.rollbacks = 1
    /\ hist.first_log # <<>>

\* C2: when the session ends rolled back and no restore failed, every file
\* of the backup map holds on disk the content it had before the session's
\* first patch application, which is the content the backup map holds.
C2_RollbackRestoresPristine ==
    (pc = "ABORTED_ROLLED_BACK" /\ hist.restore_failed = {}) =>
        \A f \in DOMAIN state["original_code_backup"] :
            LET p == state["original_code_path_map"][f]
            IN /\ state["original_code_backup"][f] = hist.pristine[p].content
               /\ disk[p].content = hist.pristine[p].content

\* C3: a NEEDS_REVIEW decision ends the session in ESCALATED whatever the
\* retry counter: routing changes neither the state (the counter included)
\* nor the disk, runs no rollback and no further node.
C3_NeedsReviewEscalates ==
    [][/\ (pc = "router" /\ Get(state, "decision", "") = "NEEDS_REVIEW") =>
            /\ pc' = "ESCALATED"
            /\ state' = state
            /\ disk' = disk
            /\ hist' = hist
       /\ pc = "ESCALATED" => FALSE]_vars

C3_Witness ==
    /\ pc = "ESCALATED"
    /\ Get(state, "retries", 0) >= RetryCeiling
    /\ hist.rollbacks = 0
    /\ hist.proposals = 1

\* the blocks of the first node_fixer run that were applied to path p
FirstBlocksOn(p) == {i \in DOMAIN hist.first_log : hist.first_log[i].path = p}

BackupsOf(p) == {b \in DOMAIN backups : b[1] = p}

\* C4: when the first validation decision is DEPLOY the session ends in
\* DEPLOYED after one node_fixer run and one testing_node run, without
\* rollback; every patched file holds the code of its (last) block, and a
\* file patched by one block has exactly one backup, of its content before.
C4_DeployFirst ==
    hist.first_decision = "DEPLOY" =>
        /\ pc \in {"router", "DEPLOYED"}
        /\ hist.proposals = 1
        /\ hist.validations = 1
        /\ hist.rollbacks = 0
        /\ \A p \in DOMAIN disk :
              LET blocks == FirstBlocksOn(p)
              IN /\ blocks # {} =>
                      disk[p].content =
                          hist.first_log[CHOOSE i \in blocks : \A j \in blocks : j <= i].content
                 /\ blocks = {} => disk[p].content = hist.pristine[p].content
                 /\ Cardinality(blocks) = 1 =>
                      /\ Cardinality(BackupsOf(p)) = 1
                      /\ \A b \in BackupsOf(p) : backups[b] = hist.pristine[p].content

C4_Witness ==
    /\ hist.first_decision = "DEPLOY"
    /\ pc = "DEPLOYED"
    /\ Cardinality(FirstBlocksOn(PathOf(FA))) = 1
    /\ disk[PathOf(FA)].content = Code2
    /\ disk[PathOf(FB)].content = Code2
    /\ Cardinality(BackupsOf(PathOf(FA))) = 1

\* C10: the decision stored in the session state is one of DEPLOY, REJECT,
\* NEEDS_REVIEW, whatever the oracle answers in the decision node.
C10_DecisionIsTernary ==
    "decision" \in DOMAIN state =>
        state["decision"] \in {"DEPLOY", "REJECT", "NEEDS_REVIEW"}

(***************************************************************************)
(* Properties of fault localisation (SpecLocalize)                         *)
(***************************************************************************)
\* b is the file an import or call of registry file a resolves to
Edge(file_index, a, b) ==
    /\ a \in DOMAIN file_index
    /\ b \in DOMAIN file_index
    /\ \E sym \in Range(file_index[a].imports) \cup Range(file_index[a].calls) :
          NeighborFile(sym) = b

\* the registry files some seed reaches along at most d edges
ReachWithin(file_index, seeds, d) ==
    {n \in DOMAIN file_index \cup seeds :
        \E p \in SeqsUpTo(DOMAIN file_index \cup seeds, d + 1) :
            /\ p # <<>>
            /\ p[1] \in seeds
            /\ p[Len(p)] = n
            /\ \A i \in 1..(Len(p) - 1) : Edge(file_index, p[i], p[i + 1])}

\* C5: when no stack-frame filename is extracted from the error text,
\* get_relevant_files returns the whole registry, whatever the depth.
C5_FailOpenLocalization ==
    (loc.op = "get_relevant_files" /\ extract_filenames_from_error(loc.err) = {})
        => (loc.out = loc.index /\ DOMAIN loc.out = DOMAIN loc.index)

C5_Witness ==
    /\ loc.op = "get_relevant_files"
    /\ loc.err # <<>>
    /\ extract_filenames_from_error(loc.err) = {}
    /\ loc.depth = 0
    /\ DOMAIN loc.out = {FA, FB, FC}

\* C6: fan_out returns exactly the files reachable from a seed along at most
\* depth import/call edges that resolve to registry files, in every visiting
\* order of the frontier and on cyclic graphs too.
C6_BoundedFanOut ==
    loc.op = "fan_out" => loc.out = ReachWithin(loc.index, loc.files, loc.depth)

C6_Witness ==
    /\ loc.op = "fan_out"
    /\ loc.files = {FA}
    /\ loc.depth = 1
    /\ loc.out = {FA, FB}
    /\ ReachWithin(loc.index, {FA}, 0) = {FA}
    /\ ReachWithin(loc.index, {FA}, 2) = {FA, FB, FC}
    /\ Edge(loc.index, FC, FA)

(***************************************************************************)
(* Properties of patch application (SpecApply)                             *)
(***************************************************************************)
ApSource == SourceFiles(ap.src, ap.pre.index)

\* some filename line of the response names (case-insensitively) the file at p
NamedByResponse(p) ==
    \E i \in DOMAIN ap.resp :
        /\ IsFilenameLine(ap.resp[i])
        /\ Lower(Basename(MarkerFilename(ap.resp[i]))) = Lower(Basename(p))

\* length of the closed block (filename line, fence, code, fence) the
\* response starts with, 0 when it does not start with one
HeadBlockLen(resp) ==
    IF /\ Len(resp) >= 3
       /\ IsFilenameLine(resp[1])
       /\ IsFence(resp[2])
       /\ CloseIdx(resp, 3) <= Len(resp)
    THEN CloseIdx(resp, 3)
    ELSE 0

HeadBlockUnknown ==
    /\ HeadBlockLen(ap.resp) > 0
    /\ MatchedKey(ap.ord, ApSource, Basename(MarkerFilename(ap.resp[1]))) = None

\* C7: a block whose filename matches no file of the working set creates and
\* writes no file, leaves the registry's keys alone, and is dropped: the
\* outcome is that of the rest of the response.
C7_NoNewFiles ==
    ap.op = "applied" =>
        /\ DOMAIN ap.st.disk = DOMAIN ap.pre.disk
        /\ DOMAIN ap.st.index = DOMAIN ap.pre.index
        /\ \A p \in DOMAIN ap.st.disk :
              ap.st.disk[p] # ap.pre.disk[p] => (Basename(p) \in ap.src /\ NamedByResponse(p))
        /\ \A b \in DOMAIN ap.st.backups :
              Basename(b[1]) \in ap.src /\ NamedByResponse(b[1])
        /\ HeadBlockUnknown =>
              LET n == HeadBlockLen(ap.resp)
                  rest == apply_fixes_to_code(SubSeq(ap.resp, n + 1, Len(ap.resp)),
                                              ApSource, ap.ord, ap.pre)
              IN /\ ap.st.disk = rest.disk
                 /\ ap.st.index = rest.index
                 /\ ap.st.backups = rest.backups
                 /\ ap.st.warnings = <<MarkerFilename(ap.resp[1])>> \o rest.warnings

C7_Witness ==
    /\ ap.op = "applied"
    /\ HeadBlockUnknown
    /\ ap.resp[1] = MarkZ
    /\ ap.st.disk[PathOf(FA)].content = Code1
    /\ PathOf(FZ) \notin DOMAIN ap.st.disk

\* the response is a sequence of closed blocks, each a FILENAME: line, a
\* fence, code and a closing fence, with prose between the blocks
RECURSIVE WellFormedFrom(_, _)
WellFormedFrom(resp, i) ==
    IF i > Len(resp) THEN TRUE
    ELSE IF resp[i].k = "FILENAME"
         THEN /\ i + 1 <= Len(resp)
              /\ IsFence(resp[i + 1])
              /\ CloseIdx(resp, i + 2) <= Len(resp)
              /\ WellFormedFrom(resp, CloseIdx(resp, i + 2) + 1)
         ELSE /\ ~IsFence(resp[i])
              /\ ~IsFilenameLine(resp[i])
              /\ WellFormedFrom(resp, i + 1)

WellFormed(resp) == WellFormedFrom(resp, 1)

SameContents(d1, d2) ==
    /\ DOMAIN d1 = DOMAIN d2
    /\ \A p \in DOMAIN d1 : d1[p].content = d2[p].content

InitValidate == OrchIdle /\ loc = LocIdle /\ ap = ApIdle /\ ValInit /\ reg = RegIdle

NextValidate ==
    \/ analyze_error_node
    \/ code_diff_analysis_node
    \/ logic_validation_node
    \/ semantic_validation_node
    \/ security_validation_node
    \/ make_decision

SpecValidate == InitValidate /\ [][NextValidate]_vars

(***************************************************************************)
(* Properties of the validation workflow (SpecValidate)                    *)
(***************************************************************************)
\* C9: when the oracle call of the decision node fails, the workflow ends
\* with decision REJECT, a report of the failure and a single system-error
\* failure reason.
C9_AggregationFailureRejects ==
    (val.pc = "END" /\ val.agg.failed) =>
        /\ val.st["decision"] = "REJECT"
        /\ val.st["detailed_report"].kind = "Decision process failed"
        /\ val.st["failure_reasons"] = JList(<<"System error">>)

(***************************************************************************)
(* Termination of the orchestration graph.  The graph runtime runs the     *)
(* node that is due as long as there is one, hence weak fairness of Next.  *)
(***************************************************************************)
Terminal == {"DEPLOYED", "ESCALATED", "ABORTED_ROLLED_BACK", "RAISED"}

SpecLive == Init /\ [][Next]_vars /\ WF_vars(Next)

Ternary == {"DEPLOY", "REJECT", "NEEDS_REVIEW"}

C12_OnlyDiscoveryRaises == pc = "RAISED" => errorLog = NoLog

HasBackupMap(st) ==
    "original_code_backup" \in DOMAIN st /\ "original_code_path_map" \in DOMAIN st

\* C15: the backup map (contents and paths) enters the state in the first
\* run of node_fixer, and no later step of node_fixer, testing_node or
\* router changes or removes it.
C15_BackupMapCapturedOnce ==
    [][/\ HasBackupMap(state) =>
            /\ HasBackupMap(state')
            /\ state'["original_code_backup"] = state["original_code_backup"]
            /\ state'["original_code_path_map"] = state["original_code_path_map"]
       /\ (~HasBackupMap(state) /\ HasBackupMap(state')) =>
            (pc = "fix_code" /\ hist.proposals = 0)
       /\ (pc = "fix_code" /\ pc' = "test_code") => HasBackupMap(state')]_vars

\* a second run of node_fixer has patched A.java again and the backup map
\* still holds what the first run captured
C15_Witness ==
    /\ pc = "test_code"
    /\ hist.proposals = 2
    /\ HasBackupMap(state)
    /\ state["original_code_backup"][FA] = Code1
    /\ state["file_index"][FA].content = Code2

\* C17: a REJECT decided by a validation that began with the retry counter
\* below the ceiling is followed by another proposal; a session is rolled
\* back on REJECT only when the counter was at the ceiling when the
\* validation began (hist.validate_retries).
C17_RejectBelowCeilingRetries ==
    /\ (pc = "ABORTED_ROLLED_BACK" /\ Get(state, "decision", "") = "REJECT")
            => hist.validate_retries >= RetryCeiling
    /\ hist.rollbacks > 0 => pc = "ABORTED_ROLLED_BACK"

\* C18: after a validation the retry counter is one more than it was when
\* the validation began if the decision is REJECT, and what it was for any
\* other decision; routing back to node_fixer adds nothing to it.
C18_CountedOncePerReject ==
    hist.validations > 0 =>
        Get(state, "retries", 0) =
            hist.validate_retries + (IF Get(state, "decision", "") = "REJECT" THEN 1 ELSE 0)

\* the feedback built from a rejection: its reasons (or the default
\* sentence when it has none) and its report
FeedbackOf(rejection) ==
    [summary |-> IF rejection.failure_reasons.v # <<>>
                 THEN rejection.failure_reasons.v
                 ELSE <<"REJECTED. No clear reason provided.">>,
     full_report |-> rejection.detailed_report]

\* C19: the first run of node_fixer gets no feedback, and a run that
\* follows a REJECT gets the reasons and the report of that rejection, the
\* most recent one.
C19_FeedbackOfLastRejection ==
    pc = "test_code" =>
        /\ hist.proposals = 1 => hist.feedback = <<>>
        /\ (hist.validations > 0 /\ Get(state, "decision", "") = "REJECT") =>
               hist.feedback = <<FeedbackOf(hist.last_rejection)>>

\* a third proposal, made after a second rejection that gave a reason
C19_Witness ==
    /\ pc = "test_code"
    /\ hist.validations = 2
    /\ Get(state, "decision", "") = "REJECT"
    /\ Len(hist.feedback) = 1
    /\ hist.feedback[1].summary = <<"bug">>
    /\ hist.start_retries = 0

(***************************************************************************)
(* Further properties of fault localisation (SpecLocalize)                 *)
(***************************************************************************)
\* C13: for every error text and non-empty registry, the relevant set that
\* get_relevant_files hands to the proposer is not empty.
C13_RelevantSetNotEmpty ==
    (loc.op = "get_relevant_files" /\ DOMAIN loc.index # {}) => DOMAIN loc.out # {}

(***************************************************************************)
(* Further properties of patch application (SpecApply)                     *)
(***************************************************************************)
\* the response without its prose: the lines outside code blocks (a fence
\* opens a block, the next fence closes it) that are neither a FILENAME:
\* line nor a fence
RECURSIVE StripProseFrom(_, _, _)
StripProseFrom(resp, i, inside) ==
    IF i > Len(resp) THEN <<>>
    ELSE IF IsFence(resp[i])
         THEN <<resp[i]>> \o StripProseFrom(resp, i + 1, ~inside)
         ELSE IF ~inside /\ resp[i].k = "text"
              THEN StripProseFrom(resp, i + 1, inside)
              ELSE <<resp[i]>> \o StripProseFrom(resp, i + 1, inside)

StripProse(resp) == StripProseFrom(resp, 1, FALSE)

WrittenBy(st) == {<<st.log[i].path, st.log[i].content>> : i \in DOMAIN st.log}

\* C14: prose lines outside code blocks do not change what apply writes:
\* the files written and their content are those of the response without
\* its prose.
C14_ProseIgnored ==
    ap.op = "applied" =>
        LET bare == apply_fixes_to_code(StripProse(ap.resp), ApSource, ap.ord, ap.pre)
        IN /\ SameContents(ap.st.disk, bare.disk)
           /\ WrittenBy(ap.st) = WrittenBy(bare)

\* C21: after one or two applications of a response, the content that
\* every patched file had before the first overwrite is held by one of the
\* backup files of that file.
C21_PristineKeptByBackups ==
    ap.op \in {"applied", "reapplied"} =>
        \A i \in DOMAIN ap.st.log :
            LET p == ap.st.log[i].path
            IN \E b \in DOMAIN ap.st.backups :
                  b[1] = p /\ ap.st.backups[b] = ap.pre.disk[p].content

(***************************************************************************)
(* Properties of the file registry (SpecRegistry)                          *)
(***************************************************************************)
\* C16: a refresh of a registry none of whose files was changed from
\* outside since it was built returns the registry as it was: the same
\* keys and, for every key, the same entry.
C16_RefreshWithoutChange ==
    (reg.op = "refreshed" /\ reg.edits = 0) => reg.st.index = reg.prev

\* a refresh after a response was applied and nothing else changed
C16_Witness ==
    /\ reg.op = "refreshed"
    /\ reg.edits = 0
    /\ reg.patches = 1
    /\ reg.st.index[FA].content = Code2
    /\ reg.st.index = reg.prev

\* C20: once a block has been applied to a file, and also after the next
\* refresh, the registry entry of the file is the one built from the new
\* content: declared type, imports and calls included.
C20_PatchedEntryRebuilt ==
    (reg.op \in {"patched", "refreshed"} /\ reg.edits = 0) =>
        \A i \in DOMAIN reg.st.log :
            reg.st.index[reg.st.log[i].key] = build_file_entry(reg.st.disk, reg.st.log[i].path)

(***************************************************************************)
(* Further properties of the validation workflow (SpecValidate)            *)
(***************************************************************************)
StageOrder ==
    <<"analyze_error", "analyze_code_diff", "validate_logic",
      "validate_semantics", "validate_security", "make_decision">>

AnalysisFields ==
    {"error_analysis", "code_diff_analysis", "logic_validation",
     "semantic_validation", "security_validation"}

\* C22: the stages that have run are the first ones of the order error
\* analysis, diff analysis, logic, semantics, security, aggregation, each
\* once; the aggregation stage starts with the five analysis fields
\* written, and the workflow ends when all six have run.
C22_StagesInOrder ==
    val.pc # "idle" =>
        /\ Len(val.ran) <= Len(StageOrder)
        /\ val.ran = SubSeq(StageOrder, 1, Len(val.ran))
        /\ val.pc = (IF Len(val.ran) < Len(StageOrder)
                     THEN StageOrder[Len(val.ran) + 1] ELSE "END")
        /\ val.pc \in {"make_decision", "END"} => AnalysisFields \subseteq DOMAIN val.st
        /\ val.pc # "END" => "decision" \notin DOMAIN val.st

C22_Witness ==
    /\ val.pc = "END"
    /\ val.ran = StageOrder
    /\ "error" \in DOMAIN val.st["logic_validation"]
    /\ val.st["decision"] = "DEPLOY"

\* the field the analysis stage at position i of StageOrder writes
StageField ==
    <<"error_analysis", "code_diff_analysis", "logic_validation",
      "semantic_validation", "security_validation">>

\* C23: an analysis stage always hands over to the next stage, changing
\* its own field only; when its oracle call failed (val.failed) the field
\* carries an error key; and the aggregation stage then ends the workflow
\* with a decision.
C23_AnalysisFailureIsData ==
    [][/\ \A i \in 1..5 :
            val.pc = StageOrder[i] =>
                /\ val'.pc = StageOrder[i + 1]
                /\ DOMAIN val'.st = DOMAIN val.st \cup {StageField[i]}
                /\ \A k \in DOMAIN val.st \ {StageField[i]} : val'.st[k] = val.st[k]
                /\ StageField[i] \in val'.failed =>
                       "error" \in DOMAIN val'.st[StageField[i]]
       /\ val.pc = "make_decision" =>
            /\ val'.pc = "END"
            /\ "decision" \in DOMAIN val'.st
            /\ \A k \in DOMAIN val.st : val'.st[k] = val.st[k]]_vars

\* every analysis stage failed and the workflow still ended with a decision
C23_Witness ==
    /\ val.pc = "END"
    /\ val.failed = AnalysisFields
    /\ \A f \in AnalysisFields : "error" \in DOMAIN val.st[f]
    /\ val.st["decision"] = "REJECT"
    /\ ~val.agg.failed

\* C24: the oracle client call of the aggregation stage made between one
\* and max_retries attempts and returned an object: parsed from the answer,
\* or an error object when the call ended in the except branch.
C24_ClientReturnsObject ==
    val.pc = "END" =>
        /\ val.agg.attempts \in 1..max_retries
        /\ val.agg.t = "dict"
        /\ val.agg.failed => "error" \in DOMAIN val.agg.d

\* C25: in every session state that carries a decision other than REJECT
\* the failure reasons are an empty list.
C25_ReasonsOnlyOnReject ==
    ("decision" \in DOMAIN state /\ state["decision"] # "REJECT") =>
        state["failure_reasons"] = JList(<<>>)

(***************************************************************************)
(* Further properties of patch application (SpecApply)                     *)
(***************************************************************************)

\* the fence at line i of the response opens a block whose code is
\* fixed_code and whose nearest filename line before it, with neither a
\* fence nor another filename line in between, names suggested
BlockUnder(resp, i, suggested, fixed_code) ==
    /\ IsFence(resp[i])
    /\ fixed_code = SubSeq(resp, i + 1, CloseIdx(resp, i + 1) - 1)
    /\ \E j \in 1..(i - 1) :
          /\ IsFilenameLine(resp[j])
          /\ MarkerFilename(resp[j]) = suggested
          /\ \A k \in (j + 1)..(i - 1) :
                ~IsFilenameLine(resp[k]) /\ ~IsFence(resp[k])

\* C26: every block that was applied went to the file named by the most
\* recent filename marker before its fence (a marker replaces the one
\* pending), and no file other than those was written.
C26_LastMarkerWins ==
    ap.op = "applied" =>
        /\ \A n \in DOMAIN ap.st.log :
              LET e == ap.st.log[n]
              IN /\ \E i \in DOMAIN ap.resp :
                       BlockUnder(ap.resp, i, e.suggested, e.content)
                 /\ e.key = MatchedKey(ap.ord, ApSource, Basename(e.suggested))
        /\ \A p \in DOMAIN ap.st.disk :
              ap.st.disk[p] # ap.pre.disk[p] =>
                  \E n \in DOMAIN ap.st.log : ap.st.log[n].path = p

\* a marker for A, then a marker line for B, then a block: B is written
C26_Witness ==
    /\ ap.op = "applied"
    /\ ap.resp = <<MarkA>> \o Block(BareB, Code2)
    /\ Len(ap.st.log) = 1
    /\ ap.st.log[1].key = FB
    /\ ap.st.disk[PathOf(FB)].content = Code2
    /\ ap.st.disk[PathOf(FA)] = ap.pre.disk[PathOf(FA)]

(***************************************************************************)
(* Further properties of the file registry (SpecRegistry)                  *)
(***************************************************************************)

\* C27: right after a refresh the keys are the keys held before (reg.prev)
\* whose file still exists; an entry whose file differs from it both in
\* modification time and in checksum is the entry built anew from the
\* file; every other entry is the one held before.
C27_RefreshRemovesAndRebuilds ==
    reg.op = "refreshed" =>
        /\ DOMAIN reg.st.index =
              {n \in DOMAIN reg.prev : reg.prev[n].path \in DOMAIN reg.st.disk}
        /\ \A n \in DOMAIN reg.st.index :
              LET old == reg.prev[n]
                  f == reg.st.disk[old.path]
              IN IF f.mtime # old.last_modified /\ md5(f.content) # old.checksum
                 THEN /\ reg.st.index[n].content = f.content
                      /\ reg.st.index[n].last_modified = f.mtime
                      /\ reg.st.index[n].checksum = md5(f.content)
                      /\ reg.st.index[n] = build_file_entry(reg.st.disk, old.path)
                 ELSE reg.st.index[n] = old

\* one refresh that removes B (deleted), rebuilds A (edited) and adds no
\* key for the new file C
C27_Witness ==
    /\ reg.op = "refreshed"
    /\ DOMAIN reg.prev = {FA, FB}
    /\ DOMAIN reg.st.index = {FA}
    /\ reg.st.index[FA] # reg.prev[FA]
    /\ reg.st.index[FA].content = Code2

\* C28: in every state of the registry (built, edited from outside,
\* patched, refreshed) the checksum of every entry is the hash of the
\* content field of that entry.
C28_ChecksumOfContent ==
    reg.op # "idle" =>
        \A n \in DOMAIN reg.st.index :
            reg.st.index[n].checksum = md5(reg.st.index[n].content)

\* a registry that was patched and then refreshed after an outside edit
C28_Witness ==
    /\ reg.op = "refreshed"
    /\ reg.patches = 1
    /\ reg.edits > 0
    /\ Len(reg.st.log) > 0
    /\ FA \in DOMAIN reg.st.index
    /\ reg.st.index[FA].content = Code2
    /\ reg.st.index[FA].checksum = md5(Code2)
    /\ reg.st.index[FA] # reg.prev[FA]

(***************************************************************************)
(* Further properties of the session (Spec)                                *)
(***************************************************************************)

\* C29: once a rollback has run the session is in ABORTED_ROLLED_BACK,
\* whichever files failed to restore (hist.restore_failed), and every other
\* file of the backup map was rewritten at that moment with the content the
\* map holds for it.
C29_RollbackIsBestEffort ==
    hist.rollbacks > 0 =>
        /\ pc = "ABORTED_ROLLED_BACK"
        /\ \A f \in DOMAIN Get(state, "original_code_backup", EmptyMap) :
              f \notin hist.restore_failed =>
                  LET p == state["original_code_path_map"][f]
                  IN /\ disk[p].content = state["original_code_backup"][f]
                     /\ disk[p].mtime = clock

\* restoring A failed, B was restored all the same
C29_Witness ==
    /\ pc = "ABORTED_ROLLED_BACK"
    /\ hist.rollbacks = 1
    /\ hist.restore_failed = {FA}
    /\ FB \in DOMAIN state["original_code_backup"]
    /\ disk[PathOf(FB)].mtime = clock
    /\ disk[PathOf(FB)].content = state["original_code_backup"][FB]
    /\ disk[PathOf(FA)].mtime < clock

\* C30: a rollback has run only in a session whose decision is neither
\* DEPLOY nor NEEDS_REVIEW and whose retry counter has reached the ceiling;
\* a session that ended on DEPLOY or NEEDS_REVIEW has run none, and every
\* indexed file holds on disk the content the registry has for it (the
\* content of the last patch for a patched file).
C30_RollbackOnlyAtCeiling ==
    /\ hist.rollbacks > 0 =>
          /\ Get(state, "decision", "") \notin {"DEPLOY", "NEEDS_REVIEW"}
          /\ Get(state, "retries", 0) >= RetryCeiling
    /\ pc \in {"DEPLOYED", "ESCALATED"} =>
          /\ hist.rollbacks = 0
          /\ \A f \in DOMAIN state["file_index"] :
                disk[state["file_index"][f].path].content = state["file_index"][f].content

\* a session that ended on DEPLOY with the counter at the ceiling: the
\* patched content of A is on disk, not the content of the backup map
C30_Witness ==
    /\ pc = "DEPLOYED"
    /\ Get(state, "retries", 0) >= RetryCeiling
    /\ hist.rollbacks = 0
    /\ FA \in DOMAIN state["original_code_backup"]
    /\ disk[PathOf(FA)].content # state["original_code_backup"][FA]
    /\ disk[PathOf(FA)].content # hist.pristine[PathOf(FA)].content

(***************************************************************************)
(* One marker, one block (SpecApply)                                       *)
(***************************************************************************)

\* the writes n, n + 1, ... of the log can be matched, in order, with
\* fences at or after line lo of the response, each fence directly under a
\* filename line of its own that names the written file
RECURSIVE WritesUnderOwnMarkers(_, _, _)
WritesUnderOwnMarkers(resp, log, lo) ==
    \/ log = <<>>
    \/ \E i \in lo..Len(resp) :
          /\ BlockUnder(resp, i, Head(log).suggested, Head(log).content)
          /\ WritesUnderOwnMarkers(resp, Tail(log), i + 1)

\* the filename lines of the response
FilenameLines(resp) == {j \in DOMAIN resp : IsFilenameLine(resp[j])}

\* C31: a filename marker serves one code block at most: the files written
\* can be matched one to one, in order, with fences that stand directly
\* under a filename line, so that a fence with no filename line between it
\* and the block before it writes no file; there are no more writes than
\* filename lines.
C31_MarkerServesOneBlock ==
    ap.op = "applied" =>
        /\ WritesUnderOwnMarkers(ap.resp, ap.st.log, 1)
        /\ Len(ap.st.log) <= Cardinality(FilenameLines(ap.resp))

\* a block for B followed by a block without a marker: B holds the code of
\* the first block and the two fences of the second one are passed over
C31_Witness ==
    /\ ap.op = "applied"
    /\ ap.resp = Block(BareB, Code2) \o <<Fence>> \o Code1 \o <<Fence>>
    /\ Len(ap.st.log) = 1
    /\ ap.st.log[1].key = FB
    /\ ap.st.warnings = <<None, None>>
    /\ ap.st.disk[PathOf(FB)].content = Code2
    /\ \A p \in DOMAIN ap.st.disk \ {PathOf(FB)} : ap.st.disk[p] = ap.pre.disk[p]

====
